---- MODULE Spec2Model ----
(***************************************************************************)
(* Inventory manager (src/inventory.js): the item list kept in memory      *)
(* (state.items, state.editingId), its mirror in localStorage under        *)
(* STORAGE_KEY, the mock REST transport mockApi.fetch with its 150 ms      *)
(* timer, the repository client (getAll/create/update/delete) and the      *)
(* CRUD handlers that reconcile memory with the store.                     *)
(*                                                                         *)
(* Execution model.  JavaScript runs one task at a time.  A handler runs   *)
(* synchronously up to its first await, which ends in setTimeout(150) of   *)
(* mockApi.fetch; the timer callback and the promise continuations it      *)
(* releases (the rest of fetch, of the client method and of the handler)   *)
(* run in one task and its microtask checkpoint, so one resolution is one  *)
(* atomic step.  All timers have the same delay, so they fire in the order *)
(* they were set: the pending fetches form a FIFO queue.                   *)
(*                                                                         *)
(* Texts typed into the form are sequences of one-character strings.  A    *)
(* JSON text is represented by the value it denotes, wrapped in a record   *)
(* of kind "json"; a text that is not JSON is a record of kind "garbage".  *)
(***************************************************************************)
EXTENDS Integers, Sequences, FiniteSets, TLC

VARIABLES
    store,      \* localStorage[STORAGE_KEY]: what getItem returns
    items,      \* state.items
    editingId,  \* state.editingId
    timers,     \* fetches whose 150 ms timer has not fired yet, oldest first
    nextId,     \* index of the next identifier crypto.randomUUID() returns
    pc,         \* "load" before initInventory, then "ready" or "crashed"
    ev,         \* the last handler or client step and how it ended
    scen        \* progress of the awaited scenario of section 8

vars == <<store, items, editingId, timers, nextId, pc, ev, scen>>

(***************************************************************************)
(* Bounds of the model                                                     *)
(***************************************************************************)
MaxUuid == 2        \* identifiers crypto.randomUUID() may hand out
MaxInFlight == 2    \* fetches pending at the same time

(***************************************************************************)
(* Constants of the program                                                *)
(***************************************************************************)
NULL == "null"
BaseUrl == <<"https:", "", "api.example.com", "inventory">>
UUIDs == <<"u1", "u2", "u3", "u4", "u5">>

\* one identifier, made once and used for every item
Uuid_Once(n) == UUIDs[1]

\* crypto.randomUUID(): the n-th call returns an identifier no earlier call
\* returned
Uuid(n) == UUIDs[n]
IssuedIds == {Uuid(n) : n \in 1..(nextId - 1)}

(***************************************************************************)
(* Form inputs: the texts of #item-name and #item-quantity.  Spec types a  *)
(* few of them; SpecForm, the specification of the form's validation and   *)
(* coercion, types them all.                                               *)
(***************************************************************************)
NameInputs == { <<" ">>, <<"N", "u", "t">>, <<" ", "N", "u", "t", " ">> }
QtyInputs == { <<"1", "0">>, <<"1", "2">> }
FormNameInputs == NameInputs \cup { <<>>, <<" ", " ">> }
FormQtyInputs ==
    { <<>>, <<"a", "b", "c">>, <<"-", "3">>, <<"-">>, <<"0">>, <<"-", "0">>,
      <<"+", "7">>, <<"0", "0", "7">>, <<"7", ".", "9">>,
      <<"1", "2">>, <<" ", "1", "2", "p", "x">> }

IsSpace(c) == c = " "
Digits == <<"0", "1", "2", "3", "4", "5", "6", "7", "8", "9">>
IsDigit(c) == \E d \in 1..10 : Digits[d] = c
DigitVal(c) == (CHOOSE d \in 1..10 : Digits[d] = c) - 1

RECURSIVE TrimStart(_)
TrimStart(s) ==
    IF s # <<>> /\ IsSpace(Head(s)) THEN TrimStart(Tail(s)) ELSE s

RECURSIVE TrimEnd(_)
TrimEnd(s) ==
    IF s # <<>> /\ IsSpace(s[Len(s)])
    THEN TrimEnd(SubSeq(s, 1, Len(s) - 1))
    ELSE s

\* the text taken as typed
Trim_Missing(s) == s

\* String.prototype.trim
Trim(s) == TrimEnd(TrimStart(s))

RECURSIVE LeadingDigits(_)
LeadingDigits(s) ==
    IF s # <<>> /\ IsDigit(Head(s))
    THEN <<Head(s)>> \o LeadingDigits(Tail(s))
    ELSE <<>>

RECURSIVE DecimalValue(_)
DecimalValue(ds) ==
    IF ds = <<>> THEN 0
    ELSE 10 * DecimalValue(SubSeq(ds, 1, Len(ds) - 1)) + DigitVal(ds[Len(ds)])

\* parseInt(text, 10): leading white space, an optional sign, then the
\* longest run of digits; NaN when that run is empty.
ParseInt(text) ==
    LET t == TrimStart(text)
        neg == t # <<>> /\ Head(t) = "-"
        signed == t # <<>> /\ Head(t) \in {"-", "+"}
        ds == LeadingDigits(IF signed THEN Tail(t) ELSE t)
    IN  IF ds = <<>>
        THEN [nan |-> TRUE, val |-> 0]
        ELSE [nan |-> FALSE,
              val |-> IF neg THEN 0 - DecimalValue(ds) ELSE DecimalValue(ds)]

Max(a, b) == IF a >= b THEN a ELSE b

\* parseInt(qtyInput.value, 10) || 0, without the clamp
Quantity_Unclamped(text) ==
    LET p == ParseInt(text)
    IN  IF p.nan \/ p.val = 0 THEN 0 ELSE p.val

\* Math.max(0, parseInt(qtyInput.value, 10) || 0)
Quantity(text) ==
    LET p == ParseInt(text)
    IN  Max(0, IF p.nan \/ p.val = 0 THEN 0 ELSE p.val)

(***************************************************************************)
(* localStorage and JSON                                                   *)
(***************************************************************************)
NoRecord == [kind |-> "null"]        \* getItem returns null
EmptyText == [kind |-> "empty"]      \* the record is the empty string
Garbage == [kind |-> "garbage"]      \* the record is not JSON

\* JSON.stringify
Stringify(v) == [kind |-> "json", val |-> v]

\* `stored ? ... : ...`: null and "" are falsy
Truthy(text) == text.kind \notin {"null", "empty"}

\* JSON.parse raises SyntaxError on a text that is not JSON
ParseThrows(text) == text.kind # "json"
Parse(text) == text.val

\* `stored ? JSON.parse(stored) : []`
LoadThrows(stored) == Truthy(stored) /\ ParseThrows(stored)
Load(stored) == IF Truthy(stored) THEN Parse(stored) ELSE <<>>

(***************************************************************************)
(* Arrays                                                                  *)
(***************************************************************************)
Has(obj, k) == k \in DOMAIN obj

\* { ...a, ...b }
Spread(a, b) ==
    [k \in (DOMAIN a) \cup (DOMAIN b) |-> IF k \in DOMAIN b THEN b[k] ELSE a[k]]

\* items.findIndex(i => i.id === id); 0 stands for -1
FindIndex(arr, body) ==
    IF Has(body, "id") /\ \E n \in 1..Len(arr) : arr[n].id = body.id
    THEN CHOOSE n \in 1..Len(arr) :
            /\ arr[n].id = body.id
            /\ \A m \in 1..(n - 1) : arr[m].id # body.id
    ELSE 0

\* items.filter(i => i.id !== id)
RECURSIVE FilterOut(_, _)
FilterOut(arr, id) ==
    IF arr = <<>> THEN <<>>
    ELSE IF Head(arr).id # id
         THEN <<Head(arr)>> \o FilterOut(Tail(arr), id)
         ELSE FilterOut(Tail(arr), id)

\* the branches of the conditional the wrong way round
MapReplace_Swapped(arr, updated) ==
    [n \in 1..Len(arr) |-> IF arr[n].id = updated.id THEN arr[n] ELSE updated]

\* state.items.map(i => (i.id === updated.id ? updated : i))
MapReplace(arr, updated) ==
    [n \in 1..Len(arr) |-> IF arr[n].id = updated.id THEN updated ELSE arr[n]]

Ids(arr) == {arr[n].id : n \in 1..Len(arr)}
Distinct(arr) == \A m, n \in 1..Len(arr) : arr[m].id = arr[n].id => m = n

(***************************************************************************)
(* Mock transport: the part of mockApi.fetch after the timer               *)
(***************************************************************************)
Ok(data) == [ok |-> TRUE, data |-> data]
OkVoid == [ok |-> TRUE]
Fail(msg) == [ok |-> FALSE, error |-> msg]

\* url.split('/').pop()
LastSegment(url) == url[Len(url)]
ItemUrl(id) == BaseUrl \o <<id>>

\* GET, lines 28-30
FetchGet(stored, arr) ==
    [env |-> Ok(arr), store |-> stored, fresh |-> 0]

\* POST, lines 31-36
FetchPost(arr, uuid, body) ==
    LET newItem == Spread([id |-> uuid], body)
    IN  [env |-> Ok(newItem), store |-> Stringify(Append(arr, newItem)),
         fresh |-> 1]

\* a missing item created instead of reported
FetchPut_Upsert(stored, arr, body) ==
    LET idx == FindIndex(arr, body)
        merged == [arr EXCEPT ![idx] = Spread(arr[idx], body)]
    IN  IF idx = 0
        THEN [env |-> Ok(body), store |-> Stringify(Append(arr, body)),
              fresh |-> 0]
        ELSE [env |-> Ok(merged[idx]), store |-> Stringify(merged),
              fresh |-> 0]

\* the body written in the place of the item, without the merge
FetchPut_Replace(stored, arr, body) ==
    LET idx == FindIndex(arr, body)
        replaced == [arr EXCEPT ![idx] = body]
    IN  IF idx = 0
        THEN [env |-> Fail("Item not found"), store |-> stored, fresh |-> 0]
        ELSE [env |-> Ok(replaced[idx]), store |-> Stringify(replaced),
              fresh |-> 0]

\* PUT, lines 37-43; the throw of line 39 lands in the catch of line 50
FetchPut(stored, arr, body) ==
    LET idx == FindIndex(arr, body)
        merged == [arr EXCEPT ![idx] = Spread(arr[idx], body)]
    IN  IF idx = 0
        THEN [env |-> Fail("Item not found"), store |-> stored, fresh |-> 0]
        ELSE [env |-> Ok(merged[idx]), store |-> Stringify(merged),
              fresh |-> 0]

\* an absent id reported like PUT reports it
FetchDelete_Strict(arr, url) ==
    IF LastSegment(url) \in Ids(arr)
    THEN [env |-> OkVoid,
          store |-> Stringify(FilterOut(arr, LastSegment(url))), fresh |-> 0]
    ELSE [env |-> Fail("Item not found"), store |-> Stringify(arr),
          fresh |-> 0]

\* DELETE, lines 44-49
FetchDelete(arr, url) ==
    [env |-> OkVoid, store |-> Stringify(FilterOut(arr, LastSegment(url))),
     fresh |-> 0]

\* Result of one fetch on the record `stored`, lines 21-52: the envelope,
\* the record afterwards and how many identifiers randomUUID handed out.
Fetch(stored, uuid, req) ==
    LET method == req.method
        \* options.body ? JSON.parse(options.body) : null
        hasBody == Truthy(req.body)
        body == IF hasBody THEN Parse(req.body) ELSE <<>>
    IN  IF LoadThrows(stored)
        THEN [env |-> Fail("Unexpected token"), store |-> stored, fresh |-> 0]
        ELSE CASE method = "GET" -> FetchGet(stored, Load(stored))
               [] method = "POST" -> FetchPost(Load(stored), uuid, body)
               [] method = "PUT" ->
                    IF ~hasBody
                    THEN [env |-> Fail("Cannot read properties of null"),
                          store |-> stored, fresh |-> 0]
                    ELSE FetchPut(stored, Load(stored), body)
               [] method = "DELETE" -> FetchDelete(Load(stored), req.url)

(***************************************************************************)
(* Repository client: what getAll/create/update/delete do with an envelope *)
(***************************************************************************)
\* res.error || fallback
ErrorOr(env, fallback) ==
    IF Has(env, "error") /\ env.error # "" THEN env.error ELSE fallback

Fallback(method) ==
    CASE method = "GET" -> "Failed to fetch"
      [] method = "POST" -> "Failed to create"
      [] method = "PUT" -> "Failed to update"
      [] method = "DELETE" -> "Failed to delete"

\* if (!res.ok) throw new Error(res.error || '...')
ClientThrows(env) == ~env.ok
ClientMessage(env, method) == ErrorOr(env, Fallback(method))

GetRequest(fn) ==
    [fn |-> fn, id |-> NULL, method |-> "GET", url |-> BaseUrl,
     body |-> NoRecord]
PostRequest(fn, item) ==
    [fn |-> fn, id |-> NULL, method |-> "POST", url |-> BaseUrl,
     body |-> Stringify(item)]
PutRequest(fn, item) ==
    [fn |-> fn, id |-> NULL, method |-> "PUT",
     url |-> ItemUrl(IF Has(item, "id") THEN item.id ELSE "undefined"),
     body |-> Stringify(item)]
DeleteRequest(fn, id) ==
    [fn |-> fn, id |-> id, method |-> "DELETE", url |-> ItemUrl(id),
     body |-> NoRecord]

(***************************************************************************)
(* The scenario of section 8, followed step by step.  step 0: empty store, *)
(* Idle; 1: submit("Nut", 10) sent; 2: it resolved; 3: beginEdit(X);        *)
(* 4: submit("Nut", 12) sent; 5: it resolved; 6: remove(X) sent; 7: it     *)
(* resolved.  Any other step leaves the scenario (step -1).                 *)
(***************************************************************************)
Nut == <<"N", "u", "t">>
OffScenario == [step |-> 0 - 1, x |-> NULL]

Monitor(e) ==
    LET awaited == timers = <<>>
        at(n) == scen.step = n
    IN  CASE at(0) /\ e.op = "initInventory" /\ e.outcome = "returned" -> scen
          [] at(0) /\ pc = "ready" /\ awaited /\ editingId = NULL
                /\ e.op = "handleSubmit" /\ e.outcome = "create"
                /\ e.item.name = Nut /\ e.qty = <<"1", "0">> ->
                [scen EXCEPT !.step = 1]
          [] at(1) /\ e.op = "handleSubmit.create" /\ e.outcome = "returned" ->
                [step |-> 2, x |-> e.env.data.id]
          [] at(2) /\ e.op = "handleEdit" /\ e.id = scen.x ->
                [scen EXCEPT !.step = 3]
          [] at(3) /\ e.op = "handleSubmit" /\ e.outcome = "update"
                /\ e.item.name = Nut /\ e.qty = <<"1", "2">> ->
                [scen EXCEPT !.step = 4]
          [] at(4) /\ e.op = "handleSubmit.update" ->
                [scen EXCEPT !.step = 5]
          [] at(5) /\ e.op = "handleDelete" /\ e.outcome = "sent"
                /\ e.id = scen.x ->
                [scen EXCEPT !.step = 6]
          [] at(6) /\ e.op = "handleDelete.resolved" ->
                [scen EXCEPT !.step = 7]
          [] OTHER -> OffScenario

\* ev keeps which step ran and how it ended; of a submit, whether the name
\* typed was all white space ("blank") or not ("named") and, when a request
\* was sent, the quantity text; of an edit click, the id clicked; of a
\* resolved update or delete, whether its target was not in the stored
\* collection ("absent"), was the edited item ("edited"), or was there while
\* another item ("other") or none ("present") was edited; of a step in
\* which localStorage raised, which access did.  The scenario reads the step
\* in full.
Observe(e) ==
    /\ ev' = [op |-> e.op, outcome |-> e.outcome,
              qty |-> IF e.op = "handleSubmit" /\ e.outcome # "rejected"
                      THEN e.qty ELSE <<>>,
              tag |-> IF Has(e, "tag") THEN e.tag ELSE "",
              fault |-> IF Has(e, "fault") THEN e.fault ELSE ""]
    /\ scen' = Monitor(e)

(***************************************************************************)
(* Initial state: the module has been evaluated (state = {items: [],       *)
(* editingId: null}) and initInventory has not run yet.  In Spec the       *)
(* record is absent, empty or the empty collection; SpecStore also starts  *)
(* from a record an earlier session left there and from a damaged one.     *)
(***************************************************************************)
Bolt == <<"B", "o", "l", "t">>
EarlierItem == [id |-> "u0", name |-> Bolt, quantity |-> 1]
SessionStores == { NoRecord, EmptyText, Stringify(<<>>) }
AnyStores ==
    SessionStores \cup
        { Garbage, Stringify(<<EarlierItem>>) }

InitWith(records) ==
    /\ store \in records
    /\ items = <<>>
    /\ editingId = NULL
    /\ timers = <<>>
    /\ nextId = 1
    /\ pc = "load"
    /\ ev = [op |-> "module"]
    /\ scen = IF ~LoadThrows(store) /\ Load(store) = <<>>
              THEN [step |-> 0, x |-> NULL]
              ELSE OffScenario

Init == InitWith(SessionStores)
InitStore == InitWith(AnyStores)

(***************************************************************************)
(* initInventory: syncState, then renderList and the form and the event    *)
(* bindings.  A SyntaxError of JSON.parse in syncState is not caught: the  *)
(* function ends there and bindEvents is never reached.                    *)
(***************************************************************************)
syncState ==
    IF LoadThrows(store)
    THEN /\ pc' = "crashed"
         /\ UNCHANGED items
    ELSE /\ pc' = "ready"
         /\ items' = Load(store)

initInventory ==
    /\ pc = "load"
    /\ syncState
    /\ UNCHANGED <<store, editingId, timers, nextId>>
    /\ Observe([op |-> "initInventory",
                outcome |-> IF LoadThrows(store) THEN "threw" ELSE "returned"])

(***************************************************************************)
(* Handlers up to their first await                                        *)
(***************************************************************************)
PendingPosts == Cardinality({n \in 1..Len(timers) : timers[n].method = "POST"})
CanSend == Len(timers) < MaxInFlight
CanCreate == nextId + PendingPosts <= MaxUuid

\* handleSubmit, lines 163-191: validation, then update or create is called
handleSubmit(nameText, qtyText) ==
    LET name == Trim(nameText)
        quantity == Quantity(qtyText)
        editing == editingId # NULL /\ editingId # ""
        item == [name |-> name, quantity |-> quantity]
        tag == IF \A n \in 1..Len(nameText) : nameText[n] = " "
               THEN "blank" ELSE "named"
        rejected == [op |-> "handleSubmit", outcome |-> "rejected",
                     tag |-> tag]
        sent(outcome) == [op |-> "handleSubmit", outcome |-> outcome,
                          tag |-> tag, qty |-> qtyText, item |-> item]
    IN  /\ pc = "ready"
        /\ IF name = <<>>
           THEN /\ UNCHANGED <<store, items, editingId, timers, nextId, pc>>
                /\ Observe(rejected)
           ELSE IF editing
           THEN /\ CanSend
                /\ timers' = Append(timers,
                        PutRequest("handleSubmit.update",
                            Spread([id |-> editingId], item)))
                /\ UNCHANGED <<store, items, editingId, nextId, pc>>
                /\ Observe(sent("update"))
           ELSE /\ CanSend
                /\ CanCreate
                /\ timers' = Append(timers,
                        PostRequest("handleSubmit.create", item))
                /\ UNCHANGED <<store, items, editingId, nextId, pc>>
                /\ Observe(sent("create"))

\* handleEdit without the return of line 204
handleEdit_Unchecked(id) ==
    /\ pc = "ready"
    /\ editingId' = id
    /\ UNCHANGED <<store, items, timers, nextId, pc>>
    /\ Observe([op |-> "handleEdit", id |-> id, tag |-> id,
                outcome |-> IF id \in Ids(items) THEN "found" ELSE "absent"])

\* handleEdit, lines 202-207
handleEdit(id) ==
    /\ pc = "ready"
    /\ editingId' = IF id \in Ids(items) THEN id ELSE editingId
    /\ UNCHANGED <<store, items, timers, nextId, pc>>
    /\ Observe([op |-> "handleEdit", id |-> id, tag |-> id,
                outcome |-> IF id \in Ids(items) THEN "found" ELSE "absent"])

\* the click handler of #cancel-btn, lines 237-240
cancelEdit ==
    /\ pc = "ready"
    /\ editingId' = NULL
    /\ UNCHANGED <<store, items, timers, nextId, pc>>
    /\ Observe([op |-> "cancelEdit", outcome |-> "done"])

\* handleDelete, lines 209-212: the confirm gate, then delete is called
handleDelete(id, confirmed) ==
    /\ pc = "ready"
    /\ IF ~confirmed
       THEN /\ UNCHANGED timers
            /\ Observe([op |-> "handleDelete", outcome |-> "declined",
                        id |-> id])
       ELSE /\ CanSend
            /\ timers' = Append(timers, DeleteRequest("handleDelete", id))
            /\ Observe([op |-> "handleDelete", outcome |-> "sent",
                        id |-> id])
    /\ UNCHANGED <<store, items, editingId, nextId, pc>>

\* loadItems, lines 153-155: getAll is called.  loadItems is a global
\* function of the script that no event is bound to: its caller may call it
\* at any time once the script is evaluated, before initInventory too.
loadItems ==
    /\ CanSend
    /\ timers' = Append(timers, GetRequest("loadItems"))
    /\ UNCHANGED <<store, items, editingId, nextId, pc>>
    /\ Observe([op |-> "loadItems", outcome |-> "sent"])

(***************************************************************************)
(* The timer of the oldest pending fetch fires: the fetch touches the      *)
(* store, the client method unwraps the envelope or throws, and the        *)
(* handler that awaited it runs to its end.                                *)
(***************************************************************************)
\* setTimeout(resolve, 150), line 20: every fetch waits the same 150 ms, so
\* of the pending timers the one set first fires first.  NextTimer is the
\* place in the queue of the timer that fires next.
\* a delay that differs from call to call: the timer set last fires first
NextTimer_Newest(q) == Len(q)

NextTimer(q) == 1
Firing == timers[NextTimer(timers)]
StillPending ==
    [n \in 1..(Len(timers) - 1) |->
        IF n < NextTimer(timers) THEN timers[n] ELSE timers[n + 1]]

\* a fetch that waits until no other fetch is pending
TimerDue_OnlyAlone == Len(timers) = 1

\* a pending timer fires once its 150 ms have passed, whatever else is
\* pending
TimerDue == timers # <<>>
Due(fn) == TimerDue /\ Firing.fn = fn

\* What a handler does to state.items and to the record once its call has
\* returned: memory first, then localStorage.setItem of the new memory.
Mirror(arr) == [items |-> arr, store |-> Stringify(arr)]

\* lines 186 and 195
ApplyUpdate(arr, updated) == Mirror(MapReplace(arr, updated))
\* setItem before the push
ApplyCreate_PersistFirst(arr, created) ==
    [items |-> Append(arr, created), store |-> Stringify(arr)]

\* the list made of the envelope's item alone
ApplyCreate_Alone(arr, created) == Mirror(<<created>>)

\* lines 192 and 195
ApplyCreate(arr, created) == Mirror(Append(arr, created))
\* lines 213-214
ApplyDelete(arr, id) == Mirror(FilterOut(arr, id))
\* lines 155-156
ApplyLoad(data) == Mirror(data)
\* the form left as it was
EditingAfterDelete_Kept(editing, id) == editing

\* the form left only when the updated item is still the edited one
EditingAfterUpdate_KeepOther(editing, id) ==
    IF editing = id THEN NULL ELSE editing

\* line 187: state.editingId = null, whatever is edited by then
EditingAfterUpdate(editing, id) == NULL

\* lines 215-218
EditingAfterDelete(editing, id) == IF editing = id THEN NULL ELSE editing
Response == Fetch(store, Uuid(nextId), Firing)

\* a catch block that also leaves the edit form
Caught_FormReset(arr, editing) == [items |-> arr, editingId |-> NULL]

\* catch (err) { showMessage(...) }, lines 158-160, 197-199, 221-223:
\* state.items and state.editingId stay what they are
Caught(arr, editing) == [items |-> arr, editingId |-> editing]

Target(req) ==
    CASE req.method = "DELETE" -> LastSegment(req.url)
      [] req.method = "PUT" /\ Has(Parse(req.body), "id") -> Parse(req.body).id
      [] OTHER -> NULL

Resolved(fn, r) ==
    [op |-> fn, env |-> r.env,
     outcome |-> IF ClientThrows(r.env) THEN "threw" ELSE "returned",
     tag |-> CASE Firing.method \notin {"PUT", "DELETE"} -> ""
               [] LoadThrows(store) -> ""
               [] Target(Firing) \notin Ids(Load(store)) -> "absent"
               [] Target(Firing) = editingId -> "edited"
               [] editingId # NULL -> "other"
               [] OTHER -> "present"]

\* handleSubmit, lines 181-189 and 195-199
resolveUpdate ==
    LET r == Response
        updated == r.env.data
    IN  /\ Due("handleSubmit.update")
        /\ timers' = StillPending
        /\ nextId' = nextId + r.fresh
        /\ IF ClientThrows(r.env)
           THEN /\ store' = r.store
                /\ items' = Caught(items, editingId).items
                /\ editingId' = Caught(items, editingId).editingId
           ELSE /\ items' = ApplyUpdate(items, updated).items
                /\ editingId' = EditingAfterUpdate(editingId, updated.id)
                /\ store' = ApplyUpdate(items, updated).store
        /\ UNCHANGED pc
        /\ Observe(Resolved("handleSubmit.update", r))

\* handleSubmit, lines 191-199
resolveCreate ==
    LET r == Response
        created == r.env.data
    IN  /\ Due("handleSubmit.create")
        /\ timers' = StillPending
        /\ nextId' = nextId + r.fresh
        /\ IF ClientThrows(r.env)
           THEN /\ store' = r.store
                /\ items' = Caught(items, editingId).items
                /\ editingId' = Caught(items, editingId).editingId
           ELSE /\ items' = ApplyCreate(items, created).items
                /\ store' = ApplyCreate(items, created).store
                /\ UNCHANGED editingId
        /\ UNCHANGED pc
        /\ Observe(Resolved("handleSubmit.create", r))

\* handleDelete, lines 212-223
resolveDelete ==
    LET r == Response
        id == Firing.id
    IN  /\ Due("handleDelete")
        /\ timers' = StillPending
        /\ nextId' = nextId + r.fresh
        /\ IF ClientThrows(r.env)
           THEN /\ store' = r.store
                /\ items' = Caught(items, editingId).items
                /\ editingId' = Caught(items, editingId).editingId
           ELSE /\ items' = ApplyDelete(items, id).items
                /\ store' = ApplyDelete(items, id).store
                /\ editingId' = EditingAfterDelete(editingId, id)
        /\ UNCHANGED pc
        /\ Observe(Resolved("handleDelete.resolved", r))

\* loadItems, lines 155-160
resolveLoad ==
    LET r == Response
    IN  /\ Due("loadItems")
        /\ timers' = StillPending
        /\ nextId' = nextId + r.fresh
        /\ IF ClientThrows(r.env)
           THEN /\ store' = r.store
                /\ items' = Caught(items, editingId).items
                /\ editingId' = Caught(items, editingId).editingId
           ELSE /\ items' = ApplyLoad(r.env.data).items
                /\ store' = ApplyLoad(r.env.data).store
                /\ UNCHANGED editingId
        /\ UNCHANGED pc
        /\ Observe(Resolved("loadItems.resolved", r))

(***************************************************************************)
(* localStorage may raise: getItem when storage is not accessible, setItem *)
(* when the quota is exceeded.  Inside mockApi.fetch both are in the try   *)
(* block of lines 24-49; in a handler the setItem that mirrors state.items *)
(* is in the handler's own try block, after the assignments to memory.     *)
(***************************************************************************)
StoreFaults == {"read", "write"}
HandlerFns ==
    {"handleSubmit.update", "handleSubmit.create", "handleDelete", "loadItems"}
ResolvedOp(fn) ==
    CASE fn = "handleDelete" -> "handleDelete.resolved"
      [] fn = "loadItems" -> "loadItems.resolved"
      [] OTHER -> fn

\* whether this fetch gets as far as a setItem: lines 34, 41, 47
Writes(stored, uuid, req) ==
    req.method # "GET" /\ Fetch(stored, uuid, req).env.ok

\* whether the access `fault` is one this fetch makes
FaultOccurs(stored, uuid, req, fault) ==
    fault = "read" \/ Writes(stored, uuid, req)

\* the record emptied before the write that fails
FetchFaulted_Cleared(stored, uuid, req, fault) ==
    [env |-> Fail(IF fault = "read" THEN "SecurityError"
                  ELSE "QuotaExceededError"),
     store |-> Stringify(<<>>),
     fresh |-> IF fault = "write" THEN Fetch(stored, uuid, req).fresh ELSE 0]

\* Result of a fetch in which getItem (line 25) or setItem (lines 34, 41,
\* 47) raises: the catch of line 50 returns the failure envelope and the
\* record is as it was; a POST has drawn its identifier (line 32) before
\* its setItem.
FetchFaulted(stored, uuid, req, fault) ==
    [env |-> Fail(IF fault = "read" THEN "SecurityError"
                  ELSE "QuotaExceededError"),
     store |-> stored,
     fresh |-> IF fault = "write" THEN Fetch(stored, uuid, req).fresh ELSE 0]

\* The timer fires and localStorage raises inside the fetch: the client
\* method throws on the failure envelope, a handler that awaited it catches
\* and shows the message.
failFetch(fault) ==
    LET r == FetchFaulted(store, Uuid(nextId), Firing, fault)
    IN  /\ TimerDue
        /\ FaultOccurs(store, Uuid(nextId), Firing, fault)
        /\ timers' = StillPending
        /\ nextId' = nextId + r.fresh
        /\ store' = r.store
        /\ items' = Caught(items, editingId).items
        /\ editingId' = Caught(items, editingId).editingId
        /\ UNCHANGED pc
        /\ Observe(Spread(Resolved(ResolvedOp(Firing.fn), r),
                           [fault |-> fault]))

\* the setItem moved in front of the assignments to memory
Unsaved_StoreFirst(before, applied, written) ==
    [items |-> before, store |-> written]

\* Memory and record when the handler's own setItem (lines 156, 195, 214)
\* raises: the assignments to state.items come before it and stay, the
\* record keeps what the fetch wrote.
Unsaved(before, applied, written) ==
    [items |-> applied.items, store |-> written]

\* state.editingId when the handler's setItem raises: line 187 comes before
\* the setItem of line 195, lines 215-218 come after that of line 214 and
\* are skipped.
EditingWhenUnsaved(fn, editing, id) ==
    IF fn = "handleSubmit.update" THEN NULL ELSE editing

\* The timer fires, the fetch and the client method succeed, and the
\* setItem of the handler raises: the handler's catch shows the message.
failMirror ==
    LET r == Response
        fn == Firing.fn
        applied ==
            CASE fn = "handleSubmit.update" -> ApplyUpdate(items, r.env.data)
              [] fn = "handleSubmit.create" -> ApplyCreate(items, r.env.data)
              [] fn = "handleDelete" -> ApplyDelete(items, Firing.id)
              [] fn = "loadItems" -> ApplyLoad(r.env.data)
        left == Unsaved(items, applied, r.store)
    IN  /\ TimerDue
        /\ fn \in HandlerFns
        /\ ~ClientThrows(r.env)
        /\ timers' = StillPending
        /\ nextId' = nextId + r.fresh
        /\ items' = left.items
        /\ store' = left.store
        /\ editingId' = EditingWhenUnsaved(fn, editingId, Firing.id)
        /\ UNCHANGED pc
        /\ Observe(Spread(Resolved(ResolvedOp(fn), r),
                           [outcome |-> "unsaved", fault |-> "mirror"]))

\* identifiers a click or a caller can name: those handed out so far and
\* one that was never in use
KnownIds == {"u9"} \cup IssuedIds

Next ==
    \/ initInventory
    \/ \E nameText \in NameInputs, qtyText \in QtyInputs :
            handleSubmit(nameText, qtyText)
    \/ \E id \in KnownIds : handleEdit(id)
    \/ cancelEdit
    \/ \E id \in KnownIds, confirmed \in BOOLEAN : handleDelete(id, confirmed)
    \/ loadItems
    \/ resolveUpdate
    \/ resolveCreate
    \/ resolveDelete
    \/ resolveLoad

Spec == Init /\ [][Next]_vars

\* SpecFault: the same handlers on a localStorage that may raise.  The
\* submits that are rejected and the deletes that are declined at the
\* confirm gate reach neither the transport nor localStorage and are left
\* to Spec.
NextFault ==
    \/ initInventory
    \/ \E qtyText \in QtyInputs : handleSubmit(Nut, qtyText)
    \/ \E id \in KnownIds : handleEdit(id)
    \/ cancelEdit
    \/ \E id \in KnownIds : handleDelete(id, TRUE)
    \/ loadItems
    \/ resolveUpdate
    \/ resolveCreate
    \/ resolveDelete
    \/ resolveLoad
    \/ \E fault \in StoreFaults : failFetch(fault)
    \/ failMirror

SpecFault == Init /\ [][NextFault]_vars

\* SpecLive: the event loop runs a timer callback once its delay has
\* passed, so a step that resolves the pending fetch whose timer is due is
\* not put off forever.  Clicks and submits are under no such obligation.
TimerFires ==
    \/ resolveUpdate
    \/ resolveCreate
    \/ resolveDelete
    \/ resolveLoad
    \/ \E fault \in StoreFaults : failFetch(fault)
    \/ failMirror

\* the steps that issue a call (a create, an update of the edited item, a
\* delete, a load) and those that resolve one
NextLive ==
    \/ initInventory
    \/ handleSubmit(Nut, <<"1", "2">>)
    \/ \E id \in IssuedIds : handleEdit(id)
    \/ \E id \in IssuedIds : handleDelete(id, TRUE)
    \/ loadItems
    \/ TimerFires

SpecLive == Init /\ [][NextLive]_vars /\ WF_vars(TimerFires)

\* SpecLoad: the same, on any record an earlier session may have left
SpecLoad == InitStore /\ [][NextFault]_vars

(***************************************************************************)
(* Properties verified under Spec                                          *)
(***************************************************************************)
Last(seq) == seq[Len(seq)]
ResolvedOps ==
    {"handleSubmit.update", "handleSubmit.create", "handleDelete.resolved",
     "loadItems.resolved"}

\* C1: whenever an operation (submit-create, submit-update, remove, loadAll)
\* has completed its step after the latency, also with other calls still in
\* flight, state.items is the stored collection: the same items (ids, names,
\* quantities) in the same order.
C1_MemoryMirrorsStore ==
    ev.op \in ResolvedOps => ~LoadThrows(store) /\ items = Load(store)

\* an update has resolved on a list of two items while another call is
\* still in flight
C1_Witness ==
    /\ ev.op = "handleSubmit.update"
    /\ ev.outcome = "returned"
    /\ timers # <<>>
    /\ Len(items) = 2
    /\ items = Load(store)

\* C2: from an empty store and Idle state, submit("Nut", 10); beginEdit(X);
\* submit("Nut", 12); remove(X), each awaited before the next, passes
\* through items = [{X, "Nut", 10}] with the store equal to it, then
\* items = [{X, "Nut", 12}] with editingId = null, then items = [] with the
\* store holding the empty collection; X is the id the create assigned.
C2_Scenario ==
    /\ scen.step = 2 =>
            /\ items = <<[id |-> scen.x, name |-> Nut, quantity |-> 10]>>
            /\ store = Stringify(items)
            /\ scen.x # NULL
    /\ scen.step = 5 =>
            /\ items = <<[id |-> scen.x, name |-> Nut, quantity |-> 12]>>
            /\ editingId = NULL
    /\ scen.step = 7 =>
            /\ items = <<>>
            /\ store = Stringify(<<>>)

\* the scenario has been run to its end
C2_Witness == scen.step = 7

\* C7: an update whose target id is absent from the store returns the
\* failure envelope {ok: false, error: "Item not found"}, writes nothing to
\* the store, and leaves items and editingId as they were before the failed
\* submit resolved.
C7_UpdateOfMissingItem ==
    [][ev'.op = "handleSubmit.update"
            /\ Parse(Head(timers).body).id \notin Ids(Load(store)) =>
        /\ Response.env = Fail("Item not found")
        /\ ev'.outcome = "threw"
        /\ store' = store
        /\ items' = items
        /\ editingId' = editingId
      ]_vars

\* an update has failed while another item was being edited
C7_Witness ==
    /\ ev.op = "handleSubmit.update"
    /\ ev.outcome = "threw"
    /\ ev.tag = "absent"
    /\ editingId # NULL
    /\ items # <<>>

\* C8: in every reachable state the ids of the items in memory are pairwise
\* distinct and so are the ids of the items in the store; every create
\* assigns an id that differs from all ids assigned before it.
C8_IdsUnique ==
    /\ [](/\ Distinct(items)
          /\ ~LoadThrows(store)
          /\ Distinct(Load(store)))
    /\ [][ev'.op = "handleSubmit.create" /\ ev'.outcome = "returned" =>
            LET id == Last(items').id
            IN  /\ items' = Append(items, Last(items'))
                /\ id \notin IssuedIds
                /\ id \notin Ids(items)
                /\ id \notin Ids(Load(store))
          ]_vars

\* a second create has resolved while another call is in flight
C8_Witness ==
    /\ ev.op = "handleSubmit.create"
    /\ ev.outcome = "returned"
    /\ Len(items) = 2
    /\ Len(Load(store)) = 2
    /\ timers # <<>>

\* C9: a successful remove(id) removes exactly the item with that id from
\* items, the rest keeping their order, and sets editingId to null if and
\* only if editingId was id when the delete resolved (also when beginEdit(id)
\* came while the delete was in flight); another editingId is left as it is.
C9_RemoveForcesIdle ==
    [][ev'.op = "handleDelete.resolved" /\ ev'.outcome = "returned" =>
        LET id == Head(timers).id
        IN  /\ items' = SelectSeq(items, LAMBDA i : i.id # id)
            /\ editingId = id => editingId' = NULL
            /\ editingId # id => editingId' = editingId
      ]_vars

\* the delete of the edited item has resolved and another item is left
C9_Witness ==
    /\ ev.op = "handleDelete.resolved"
    /\ ev.outcome = "returned"
    /\ ev.tag = "edited"
    /\ editingId = NULL
    /\ Len(items) = 1

(***************************************************************************)
(* SpecForm: the form on its own.  Every text of FormNameInputs and        *)
(* FormQtyInputs is submitted, in Idle and in Editing state.               *)
(***************************************************************************)
NextForm ==
    \/ initInventory
    \/ \E nameText \in FormNameInputs, qtyText \in FormQtyInputs :
            handleSubmit(nameText, qtyText)
    \/ \E id \in KnownIds : handleEdit(id)
    \/ resolveUpdate
    \/ resolveCreate

SpecForm == Init /\ [][NextForm]_vars

(***************************************************************************)
(* Properties verified of SpecForm                                           *)
(***************************************************************************)

\* C3: a submit whose name is empty after trimming, in Idle or in Editing
\* state and with any quantity, issues no transport request and leaves
\* items, editingId and the store unchanged.
C3_BlankNameRejected ==
    [][ev'.op = "handleSubmit" /\ ev'.tag = "blank" =>
            UNCHANGED <<items, editingId, store, timers, nextId>>]_vars

\* a submit has been rejected in Editing state
C3_Witness ==
    /\ ev.op = "handleSubmit"
    /\ ev.outcome = "rejected"
    /\ ev.tag = "blank"
    /\ editingId # NULL
    /\ items # <<>>

\* what the claim says of a quantity text: 0 for a negative or non-numeric
\* one, the number itself for a non-negative integer
NegativeOrNonNumeric ==
    { <<>>, <<"a", "b", "c">>, <<"-", "3">>, <<"-">> }
NonNegativeInteger ==
    { <<<<"0">>, 0>>, <<<<"1", "2">>, 12>>, <<<<"0", "0", "7">>, 7>> }

\* C4: submit never rejects on a bad quantity: with a valid name, whatever
\* the quantity text (negative, non-numeric, empty, a non-negative integer),
\* a request is sent whose quantity is an integer >= 0: 0 for a negative or
\* non-numeric text, the number itself for a non-negative integer; and the
\* quantity stored when the request resolves is the quantity sent.
C4_QuantityClamped ==
    [][/\ ev'.op = "handleSubmit" /\ ev'.tag = "named" =>
            /\ timers' = Append(timers, Last(timers'))
            /\ LET sent == Parse(Last(timers').body).quantity
               IN  /\ sent \in Nat
                   /\ ev'.qty \in NegativeOrNonNumeric => sent = 0
                   /\ \A c \in NonNegativeInteger :
                            ev'.qty = c[1] => sent = c[2]
       /\ ev'.op \in {"handleSubmit.create", "handleSubmit.update"}
            /\ ev'.outcome = "returned" =>
            \E n \in 1..Len(Load(store')) :
                /\ Load(store')[n].quantity =
                        Parse(Head(timers).body).quantity
                /\ Load(store')[n].quantity \in Nat
                /\ Head(timers).method = "PUT" =>
                        Load(store')[n].id = Parse(Head(timers).body).id
                /\ Head(timers).method = "POST" => n = Len(Load(store'))
      ]_vars

\* a submit with the quantity text "-3" has sent a request with quantity 0
C4_Witness ==
    /\ ev.op = "handleSubmit"
    /\ ev.qty = <<"-", "3">>
    /\ timers # <<>>
    /\ Parse(Last(timers).body).quantity = 0

(***************************************************************************)
(* SpecStore: the store, the transport and the repository client on their  *)
(* own.  The caller invokes mockApi.getAll/create/update/delete directly,   *)
(* with partial items too, on any record the store may hold.  The script   *)
(* runs initInventory before anything else can call mockApi; when          *)
(* initInventory has thrown, the mockApi object is still there to call.    *)
(***************************************************************************)
ApiIds == {"u0"} \cup IssuedIds
ApiFns == {"mockApi.getAll", "mockApi.create", "mockApi.update",
           "mockApi.delete"}
UpdateItems ==
    { [quantity |-> 5] } \cup
    { [id |-> "u0", name |-> Nut] } \cup
    { [id |-> i, quantity |-> 5] : i \in ApiIds }
CreateItems ==
    { [name |-> Bolt, quantity |-> 1], [id |-> "u0", name |-> Nut] }

Called(fn) == Observe([op |-> fn, outcome |-> "called"])

\* mockApi.getAll, line 56 up to the timer
apiGetAll ==
    /\ pc # "load"
    /\ CanSend
    /\ timers' = Append(timers, GetRequest("mockApi.getAll"))
    /\ UNCHANGED <<store, items, editingId, nextId, pc>>
    /\ Called("mockApi.getAll")

\* mockApi.create, lines 62-66 up to the timer
apiCreate(item) ==
    /\ pc # "load"
    /\ CanSend
    /\ CanCreate
    /\ timers' = Append(timers, PostRequest("mockApi.create", item))
    /\ UNCHANGED <<store, items, editingId, nextId, pc>>
    /\ Called("mockApi.create")

\* mockApi.update, lines 72-76 up to the timer
apiUpdate(item) ==
    /\ pc # "load"
    /\ CanSend
    /\ timers' = Append(timers, PutRequest("mockApi.update", item))
    /\ UNCHANGED <<store, items, editingId, nextId, pc>>
    /\ Called("mockApi.update")

\* mockApi.delete, line 82 up to the timer
apiDelete(id) ==
    /\ pc # "load"
    /\ CanSend
    /\ timers' = Append(timers, DeleteRequest("mockApi.delete", id))
    /\ UNCHANGED <<store, items, editingId, nextId, pc>>
    /\ Called("mockApi.delete")

\* the rest of fetch and of the client method, lines 21-52, 57-58, 67-68,
\* 77-78, 83
resolveApi ==
    LET r == Response
    IN  /\ TimerDue
        /\ Firing.fn \in ApiFns
        /\ timers' = StillPending
        /\ nextId' = nextId + r.fresh
        /\ store' = r.store
        /\ UNCHANGED <<items, editingId, pc>>
        /\ Observe(Resolved(Firing.fn, r))

NextStore ==
    \/ initInventory
    \/ apiGetAll
    \/ \E item \in CreateItems : apiCreate(item)
    \/ \E item \in UpdateItems : apiUpdate(item)
    \/ \E id \in ApiIds : apiDelete(id)
    \/ resolveApi

SpecStore == InitStore /\ [][NextStore]_vars

\* SpecTransport: the same calls on a localStorage that may raise
NextTransport ==
    \/ NextStore
    \/ \E fault \in StoreFaults : failFetch(fault)

SpecTransport == InitStore /\ [][NextTransport]_vars

(***************************************************************************)
(* Properties verified of SpecStore                                          *)
(***************************************************************************)
\* the first place of the collection that holds the id, 0 when none does
FirstWithId(arr, id) ==
    IF id \in Ids(arr)
    THEN CHOOSE n \in 1..Len(arr) :
            arr[n].id = id /\ \A m \in 1..(n - 1) : arr[m].id # id
    ELSE 0

\* C5: a PUT whose body carries an existing id and only some of the fields
\* yields a stored and returned item with the body's fields overwritten and
\* every other field preserved, at the same position, all other items
\* unchanged.
C5_PutMerges ==
    [][ev'.op = "mockApi.update" /\ ev'.outcome # "called"
            /\ ~LoadThrows(store)
            /\ Has(Parse(Head(timers).body), "id")
            /\ Parse(Head(timers).body).id \in Ids(Load(store)) =>
        LET body == Parse(Head(timers).body)
            old == Load(store)
            new == Load(store')
            idx == FirstWithId(old, body.id)
        IN  /\ ~LoadThrows(store')
            /\ Len(new) = Len(old)
            /\ DOMAIN new[idx] = (DOMAIN old[idx]) \cup (DOMAIN body)
            /\ \A k \in DOMAIN body : new[idx][k] = body[k]
            /\ \A k \in (DOMAIN old[idx]) \ (DOMAIN body) :
                    new[idx][k] = old[idx][k]
            /\ \A n \in 1..Len(old) : n # idx => new[n] = old[n]
            /\ Response.env = Ok(new[idx])
            /\ ev'.outcome = "returned"
      ]_vars

\* a quantity-only update has resolved on the second item of the
\* collection, whose name it kept
C5_Witness ==
    /\ ev.op = "mockApi.update"
    /\ ev.outcome = "returned"
    /\ Len(Load(store)) >= 2
    /\ Load(store)[2] = [id |-> "u1", name |-> Bolt, quantity |-> 5]

\* C6: delete(id) of an id that is not in the collection returns a success
\* envelope, raises no error in the repository client and leaves the stored
\* collection (content and order) unchanged; deleting the same id twice
\* gives the collection that deleting it once gives.
C6_DeleteIdempotent ==
    /\ [](~LoadThrows(store) =>
            \A id \in ApiIds \cup {"u9"} :
                LET once == FetchDelete(Load(store), ItemUrl(id))
                    twice == FetchDelete(Load(once.store), ItemUrl(id))
                IN  /\ once.env.ok /\ twice.env.ok
                    /\ id \notin Ids(Load(once.store))
                    /\ Load(twice.store) = Load(once.store))
    /\ [][ev'.op = "mockApi.delete" /\ ev'.outcome # "called"
                /\ ~LoadThrows(store)
                /\ Head(timers).id \notin Ids(Load(store)) =>
            /\ Response.env.ok
            /\ ev'.outcome = "returned"
            /\ ~LoadThrows(store')
            /\ Load(store') = Load(store)
          ]_vars

\* a delete of an absent id has resolved on a collection that is not empty
C6_Witness ==
    /\ ev.op = "mockApi.delete"
    /\ ev.outcome = "returned"
    /\ ev.tag = "absent"
    /\ ~LoadThrows(store)
    /\ Len(Load(store)) >= 2

\* C10: loading the collection from the store never raises: when the record
\* is absent or its content does not parse, load yields the empty
\* collection, at startup (syncState) and inside a transport call.
C10_LoadNeverRaises ==
    /\ pc # "crashed"
    /\ ev.op = "initInventory" /\ store \in {NoRecord, EmptyText, Garbage} =>
            ev.outcome = "returned" /\ items = <<>>
    /\ ev.op \in ApiFns /\ store = Garbage => ev.outcome # "threw"

(***************************************************************************)
(* Properties verified of SpecTransport                                    *)
(***************************************************************************)
\* an envelope that reports a failure: {ok: false, error: <message>}
IsFailure(env) ==
    /\ DOMAIN env = {"ok", "error"}
    /\ env.ok = FALSE
    /\ env.error # ""

\* C11: for every verb (GET, POST, PUT, DELETE) and every store fault that
\* the call meets (getItem raises, the record does not parse, setItem
\* raises), the fetch returns an envelope {ok: false, error}, which the
\* client method turns into its error, and the record is left as it was.
C11_FaultsBecomeEnvelopes ==
    [][ev'.op \in ApiFns /\ ev'.outcome # "called"
            /\ (ev'.fault # "" \/ LoadThrows(store)) =>
        LET env == IF ev'.fault = ""
                   THEN Response.env
                   ELSE FetchFaulted(store, Uuid(nextId), Head(timers),
                                     ev'.fault).env
        IN  /\ IsFailure(env)
            /\ ev'.outcome = "threw"
            /\ store' = store
            /\ timers' = Tail(timers)
      ]_vars

\* the setItem of a POST has raised on a record that holds an item: the
\* identifier was drawn and the record is as before
C11_Witness ==
    /\ ev.op = "mockApi.create"
    /\ ev.fault = "write"
    /\ ev.outcome = "threw"
    /\ ~LoadThrows(store)
    /\ Len(Load(store)) = 1
    /\ nextId = 2

(***************************************************************************)
(* Properties verified of SpecLive                                         *)
(***************************************************************************)
\* an envelope: {ok: true}, {ok: true, data} or {ok: false, error}
IsEnvelope(env) ==
    \/ IsFailure(env)
    \/ /\ "ok" \in DOMAIN env
       /\ DOMAIN env \subseteq {"ok", "data"}
       /\ env.ok = TRUE

\* the envelope the fetch of the step returns
Delivered(fault) ==
    IF fault \in StoreFaults
    THEN FetchFaulted(store, Uuid(nextId), Head(timers), fault).env
    ELSE Response.env

\* C12: every transport call that is issued eventually resolves with an
\* envelope, however many other calls are pending, when timers are
\* scheduled fairly.  A call leaves the pending calls only in a step that
\* delivers an envelope to its caller, ok or not; and the pending calls are
\* resolved from the oldest on for ever, or from some moment on none is
\* pending: a call that is pending has finitely many calls before it, so it
\* is resolved.
C12_EveryCallResolves ==
    /\ [][timers' # timers /\ Len(timers') <= Len(timers) =>
            /\ timers' = Tail(timers)
            /\ ev'.op \in ResolvedOps
            /\ IsEnvelope(Delivered(ev'.fault))
            /\ ev'.outcome = "threw" <=> ~Delivered(ev'.fault).ok
            /\ ev'.outcome \in {"returned", "unsaved"} <=>
                    Delivered(ev'.fault).ok
       ]_vars
    /\ \/ []<><<timers # <<>> /\ timers' = Tail(timers)>>_vars
       \/ <>[](timers = <<>>)

\* two calls are pending and the older one has just been resolved with a
\* failure envelope
C12_Witness ==
    /\ ev.op \in ResolvedOps
    /\ ev.outcome = "threw"
    /\ Len(timers) = MaxInFlight - 1
    /\ MaxInFlight > 1

(***************************************************************************)
(* Properties verified of SpecFault                                        *)
(***************************************************************************)
\* how a call that failed ends in its handler: the client method threw on
\* a failure envelope ("threw"), or the handler's own setItem raised
\* ("unsaved")
FailedOutcomes == {"threw", "unsaved"}

\* C13 as claimed: every Reconciler operation (loadAll, submit, remove)
\* that fails, by a failure envelope or by a write failure of its own
\* re-persist step, raises nothing to its caller and leaves items and
\* editingId what they were before it.
C13_FailureLeavesMemory ==
    [][ev'.op \in ResolvedOps /\ ev'.outcome \in FailedOutcomes =>
        /\ pc' = pc
        /\ items' = items
        /\ editingId' = editingId
      ]_vars

\* C13 as amended: every Reconciler operation that fails, by a failure
\* envelope or by a write failure of its own re-persist step, raises
\* nothing to its caller: the handler ends and the page goes on; when it
\* fails by a failure envelope, items and editingId are what they were
\* before.
C13_EnvelopeFailureLeavesMemory ==
    [][ev'.op \in ResolvedOps /\ ev'.outcome \in FailedOutcomes =>
        /\ pc' = pc
        /\ timers' = Tail(timers)
        /\ ev'.outcome = "threw" =>
                /\ items' = items
                /\ editingId' = editingId
      ]_vars

\* a remove has failed on a setItem that raised inside the fetch, while an
\* item was being edited
C13_Witness ==
    /\ ev.op = "handleDelete.resolved"
    /\ ev.outcome = "threw"
    /\ ev.fault = "write"
    /\ editingId # NULL
    /\ items # <<>>
    /\ items = Load(store)

\* C14: in submit memory is assigned before the mirror write: when the
\* create or update was confirmed by the transport and the handler's own
\* setItem then raises, items already holds the confirmed result (the
\* created item appended, or the updated item in the place of the old one),
\* which is what the transport stored, and after an update editingId is
\* already null.
C14_MemoryBeforeStore ==
    [][ev'.outcome = "unsaved"
            /\ ev'.op \in {"handleSubmit.create", "handleSubmit.update"} =>
        LET body == Parse(Head(timers).body)
        IN  /\ ev'.op = "handleSubmit.create" =>
                /\ Len(items') = Len(items) + 1
                /\ items' = Append(items, Last(items'))
                /\ Last(items').name = body.name
                /\ Last(items').quantity = body.quantity
                /\ Last(items').id \notin Ids(items)
            /\ ev'.op = "handleSubmit.update" =>
                /\ body.id \in Ids(items)
                /\ Len(items') = Len(items)
                /\ \A n \in 1..Len(items) :
                        items'[n] = IF items[n].id = body.id
                                    THEN body ELSE items[n]
                /\ editingId' = NULL
            /\ ~LoadThrows(store')
            /\ items' = Load(store')
      ]_vars

\* the setItem of an update of the second item has raised: the item is
\* updated in memory and the form is left
C14_Witness ==
    /\ ev.op = "handleSubmit.update"
    /\ ev.outcome = "unsaved"
    /\ ev.tag = "edited"
    /\ editingId = NULL
    /\ Len(items) = 2
    /\ items[2].quantity = 12
    /\ items[1].quantity = 10

(***************************************************************************)
(* Properties verified of SpecLoad                                         *)
(***************************************************************************)
\* C15: loadAll on success replaces items wholesale with the collection the
\* GET returned and writes that collection to the store; on any failure of
\* loadAll, a failure envelope or a failure of the re-persist write, items
\* is the collection it was before loadAll.
C15_LoadAll ==
    [][ev'.op = "loadItems.resolved" =>
        /\ ev'.outcome = "returned" =>
                /\ items' = Load(store)
                /\ store' = Stringify(items')
        /\ ev'.outcome \in FailedOutcomes =>
                items' = items
      ]_vars

(***************************************************************************)
(* Overlapping calls (Spec)                                                *)
(***************************************************************************)
\* What one operation is to do to a collection: a create appends the item
\* under its new id, an update overwrites the fields of the item with the
\* id, a delete removes the item with the id, a load changes nothing.
EffectOf(arr, req, uuid) ==
    CASE req.method = "POST" ->
            Append(arr, [id |-> uuid, name |-> Parse(req.body).name,
                         quantity |-> Parse(req.body).quantity])
      [] req.method = "PUT" ->
            [n \in 1..Len(arr) |->
                IF arr[n].id = Parse(req.body).id
                THEN [id |-> arr[n].id, name |-> Parse(req.body).name,
                      quantity |-> Parse(req.body).quantity]
                ELSE arr[n]]
      [] req.method = "DELETE" -> SelectSeq(arr, LAMBDA i : i.id # req.id)
      [] OTHER -> arr

\* the operations of reqs done one after the other, in their order; n is
\* the index of the next identifier
RECURSIVE EffectOfAll(_, _, _)
EffectOfAll(arr, reqs, n) ==
    IF reqs = <<>> THEN arr
    ELSE EffectOfAll(EffectOf(arr, Head(reqs), Uuid(n)), Tail(reqs),
                     IF Head(reqs).method = "POST" THEN n + 1 ELSE n)

\* the collection once every pending call has resolved, if each takes
\* effect
Outstanding(arr) == EffectOfAll(arr, timers, nextId)

\* C16: no update is lost when calls overlap.  Whatever calls are pending,
\* issuing one more adds its effect to what the pending ones will leave,
\* and resolving one gives in the store and in items the effect of that
\* call on the collection of that moment, so that what the still pending
\* ones will leave is the same as before; when none is pending any more,
\* the store and items hold the effect of all of them, in the order of
\* issue.
C16_NoLostUpdates ==
    /\ [](pc = "ready" /\ timers = <<>> => items = Load(store))
    /\ [][Len(timers') > Len(timers) =>
            /\ timers' = Append(timers, Last(timers'))
            /\ UNCHANGED <<store, items, nextId>>
          ]_vars
    /\ [][Len(timers') < Len(timers) /\ pc = "ready" =>
            /\ items' = EffectOf(items, Head(timers), Uuid(nextId))
            /\ Load(store') = EffectOf(Load(store), Head(timers),
                                       Uuid(nextId))
            /\ EffectOfAll(items', timers', nextId') = Outstanding(items)
            /\ EffectOfAll(Load(store'), timers', nextId') =
                    Outstanding(Load(store))
          ]_vars

\* a create and a delete of another item were pending together; the create
\* has resolved on a list that held an item, the delete is still pending
C16_Witness ==
    /\ ev.op = "handleSubmit.create"
    /\ ev.outcome = "returned"
    /\ Len(timers) = MaxInFlight - 1
    /\ MaxInFlight > 1
    /\ Last(timers).method = "DELETE"
    /\ Len(items) = 2
    /\ Last(timers).id = items[1].id

\* C17: a submit in Editing state takes the update branch with the id that
\* editingId holds when it is invoked; when that update resolves with
\* success, the item with that id is replaced where it stands by the merged
\* record, the other items are untouched, and editingId is null afterwards,
\* also when cancelEdit or beginEdit of another id came while the update
\* was pending.
C17_UpdateTargetsEditedItem ==
    /\ [][ev'.op = "handleSubmit" /\ ev'.tag = "named" =>
            /\ Len(timers') = Len(timers) + 1
            /\ timers' = Append(timers, Last(timers'))
            /\ editingId # NULL =>
                    /\ ev'.outcome = "update"
                    /\ Last(timers').method = "PUT"
                    /\ Parse(Last(timers').body).id = editingId
            /\ editingId = NULL =>
                    /\ ev'.outcome = "create"
                    /\ Last(timers').method = "POST"
          ]_vars
    /\ [][ev'.op = "handleSubmit.update" /\ ev'.outcome = "returned" =>
            LET body == Parse(Head(timers).body)
            IN  /\ body.id \in Ids(items)
                /\ Len(items') = Len(items)
                /\ \A n \in 1..Len(items) :
                        items'[n] =
                            IF items[n].id = body.id
                            THEN [id |-> body.id, name |-> body.name,
                                  quantity |-> body.quantity]
                            ELSE items[n]
                /\ editingId' = NULL
          ]_vars

\* an update of one item has resolved after the edit of another item was
\* begun: the first item is updated where it stood and no item is edited
C17_Witness ==
    /\ ev.op = "handleSubmit.update"
    /\ ev.outcome = "returned"
    /\ ev.tag = "other"
    /\ editingId = NULL
    /\ Len(items) = 2
    /\ items[1].quantity # items[2].quantity

\* C18: beginEdit(id) sets editingId to id when id is the id of an item of
\* items and changes nothing when it is not; cancelEdit sets editingId to
\* null; neither issues a transport request nor changes items or the store.
C18_EditAndCancelFrame ==
    /\ [][ev'.op = "handleEdit" =>
            /\ ev'.tag \in Ids(items) => editingId' = ev'.tag
            /\ ev'.tag \notin Ids(items) => editingId' = editingId
            /\ UNCHANGED <<items, store, timers, nextId>>
          ]_vars
    /\ [][ev'.op = "cancelEdit" =>
            /\ editingId' = NULL
            /\ UNCHANGED <<items, store, timers, nextId>>
          ]_vars

\* an id that is not in the list was clicked while an item was edited and
\* a call was pending
C18_Witness ==
    /\ ev.op = "handleEdit"
    /\ ev.tag \notin Ids(items)
    /\ editingId # NULL
    /\ editingId \in Ids(items)
    /\ timers # <<>>

(***************************************************************************)
(* The editing pointer when localStorage may raise (SpecFault)             *)
(***************************************************************************)
\* C19: in every reachable state, under any interleaving of beginEdit,
\* cancelEdit, submit, remove and loadAll with calls that overlap,
\* editingId is null or the id of an item that is in items.
C19_EditingNeverDangles ==
    editingId = NULL \/ editingId \in Ids(items)

(***************************************************************************)
(* Order of resolution (Spec)                                              *)
(***************************************************************************)
\* C20: every call waits the same fixed time, so calls that overlap resolve
\* in the order in which they were issued: a new call is the newest of the
\* pending ones and the call that resolves is the oldest; and when a call
\* has resolved with success, its effect is in the store and in items,
\* both, while every later call is still pending and has not yet touched
\* the store.
C20_ResolveInIssueOrder ==
    /\ [][Len(timers') > Len(timers) =>
            /\ SubSeq(timers', 1, Len(timers)) = timers
            /\ Len(timers') = Len(timers) + 1
          ]_vars
    /\ [][Len(timers') < Len(timers) =>
            /\ timers' = Tail(timers)
            /\ ev'.op = ResolvedOp(Head(timers).fn)
            /\ ev'.outcome = "threw" => store' = store
            /\ ev'.outcome = "returned" =>
                    /\ Load(store') = EffectOf(Load(store), Head(timers),
                                               Uuid(nextId))
                    /\ items' = EffectOf(items, Head(timers), Uuid(nextId))
                    /\ store' = Stringify(items')
          ]_vars
    /\ [][Len(timers') = Len(timers) => timers' = timers]_vars

\* a delete and, after it, an update of the same item were pending; the
\* delete has resolved first and the update has yet to reach the store
C20_Witness ==
    /\ ev.op = "handleDelete.resolved"
    /\ ev.outcome = "returned"
    /\ timers # <<>>
    /\ Head(timers).method = "PUT"
    /\ Parse(Head(timers).body).id \notin Ids(items)
    /\ Parse(Head(timers).body).id \notin Ids(Load(store))

====
